---- MODULE Spec2Model ----
(***************************************************************************)
(* Model of coalib/misc/Caching.py: the on-disk cache of last-run          *)
(* timestamps (caching_db) and of changed files (changed_files_db), the    *)
(* pickle serializer in front of them and its corruption recovery.         *)
(*                                                                         *)
(* Python values are tagged records [t, v]; a store file is a sequence of  *)
(* pickle opcodes; Pickle writes the opcode stream of a value and Unpickle *)
(* runs the unpickler's stack machine over it.                             *)
(***************************************************************************)
EXTENDS Integers, Sequences, FiniteSets, TLC

\* ------------------------------------------------------------------ bounds

\* the clock (epoch seconds) runs over 0..MaxClock
MaxClock == 1

\* the sentinel timestamp of a file that was registered and never run
NoTime == -1

Projects == {"P", "Q"}

\* the files of each project: project P holds two, project Q one of the
\* same name as a file of P
ProjectFiles == [p \in Projects |-> IF p = "P" THEN {"a.c", "b.c"} ELSE {"a.c"}]

caching_db == "caching_db"
changed_files_db == "changed_files_db"
test_file == "test_file"

StoreFiles == {caching_db, changed_files_db}
FileNames == {caching_db, changed_files_db, test_file}

\* ----------------------------------------------------------- Python values

PyNone == [t |-> "none", v |-> {}]
PyInt(n) == [t |-> "int", v |-> n]
PyStr(s) == [t |-> "str", v |-> s]
PyDict(m) == [t |-> "dict", v |-> m]
PySet(s) == [t |-> "set", v |-> s]

EmptyMap == [k \in {} |-> PyNone]

\* d[k] = x on a dict's mapping, adding the key when it is new
SetItem(m, k, x) == [j \in DOMAIN m \cup {k} |-> IF j = k THEN x ELSE m[j]]

\* == of two Python values
PyEq(x, y) == x.t = y.t /\ x.v = y.v

\* ------------------------------------------------------------------ pickle

Tok(op, s, i) == [op |-> op, s |-> s, i |-> i]
Op(op) == Tok(op, "", 0)

RECURSIVE PickleValue(_)
RECURSIVE PickleItems(_, _)
RECURSIVE PickleElems(_)

\* the key/value pairs of mapping m for the keys ks, between MARK and SETITEMS
PickleItems(m, ks) ==
    IF ks = {} THEN << >>
    ELSE LET k == CHOOSE x \in ks : TRUE
         IN  <<Tok("BINUNICODE", k, 0)>> \o PickleValue(m[k])
                 \o PickleItems(m, ks \ {k})

\* the elements of a set, between MARK and ADDITEMS
PickleElems(s) ==
    IF s = {} THEN << >>
    ELSE LET e == CHOOSE x \in s : TRUE
         IN  <<Tok("BINUNICODE", e, 0)>> \o PickleElems(s \ {e})

\* the opcodes that rebuild one value on the unpickler's stack
PickleValue(x) ==
    CASE x.t = "none" -> <<Op("NONE")>>
      [] x.t = "int"  -> <<Tok("BININT", "", x.v)>>
      [] x.t = "str"  -> <<Tok("BINUNICODE", x.v, 0)>>
      [] x.t = "dict" ->
            IF DOMAIN x.v = {} THEN <<Op("EMPTY_DICT")>>
            ELSE <<Op("EMPTY_DICT"), Op("MARK")>>
                     \o PickleItems(x.v, DOMAIN x.v) \o <<Op("SETITEMS")>>
      [] x.t = "set"  ->
            IF x.v = {} THEN <<Op("EMPTY_SET")>>
            ELSE <<Op("EMPTY_SET"), Op("MARK")>>
                     \o PickleElems(x.v) \o <<Op("ADDITEMS")>>

\* pickle.dump(data, f): the whole stream
Pickle(x) == <<Op("PROTO")>> \o PickleValue(x) \o <<Op("STOP")>>

Hashable == {"str", "int", "none"}

Raise(e) == [exc |-> e, val |-> PyNone]
Return(x) == [exc |-> "", val |-> x]

RECURSIVE UpdateItems(_, _, _)
\* d[items[i]] = items[i+1] for the pairs of items from index i on
UpdateItems(m, items, i) ==
    IF i > Len(items) THEN m
    ELSE UpdateItems(SetItem(m, items[i].v, items[i + 1]), items, i + 2)

\* SETITEMS: the items above the topmost mark go into the dict below it,
\* which must lie above the mark before (fence)
SetItems(stack, mark, fence) ==
    LET items == SubSeq(stack, mark + 1, Len(stack))
    IN  IF Len(items) % 2 = 1 THEN Raise("UnpicklingError")
        ELSE IF mark <= fence THEN Raise("UnpicklingError")
        ELSE IF stack[mark].t # "dict" THEN Raise("TypeError")
        ELSE IF \E j \in 1..Len(items) :
                    j % 2 = 1 /\ items[j].t \notin Hashable
             THEN Raise("TypeError")
        ELSE Return(Append(SubSeq(stack, 1, mark - 1),
                           PyDict(UpdateItems(stack[mark].v, items, 1))))

\* ADDITEMS: the items above the topmost mark go into the set below it
AddItems(stack, mark, fence) ==
    LET items == SubSeq(stack, mark + 1, Len(stack))
    IN  IF mark <= fence THEN Raise("UnpicklingError")
        ELSE IF stack[mark].t # "set" THEN Raise("AttributeError")
        ELSE IF \E j \in 1..Len(items) : items[j].t \notin Hashable
             THEN Raise("TypeError")
        ELSE Return(Append(SubSeq(stack, 1, mark - 1),
                           PySet(stack[mark].v
                                 \cup {items[j].v : j \in 1..Len(items)})))

RECURSIVE Load(_, _, _, _)
RECURSIVE Reduced(_, _, _, _)
\* after SETITEMS or ADDITEMS gave r: its exception, or on with the next opcode
Reduced(bytes, i, r, marks) ==
    IF r.exc # "" THEN r
    ELSE Load(bytes, i + 1, r.val, SubSeq(marks, 1, Len(marks) - 1))

\* the unpickler at opcode i of bytes: stack is its value stack and marks the
\* stack heights at which MARK was read, the latest last
Load(bytes, i, stack, marks) ==
    IF i > Len(bytes) THEN Raise("EOFError")
    ELSE
    LET op == bytes[i].op
        \* the height below which the current frame may not pop
        fence == IF marks = << >> THEN 0 ELSE marks[Len(marks)]
        outer == IF Len(marks) < 2 THEN 0 ELSE marks[Len(marks) - 1]
    IN  IF op = "BINUNICODE"
        THEN Load(bytes, i + 1, Append(stack, PyStr(bytes[i].s)), marks)
        ELSE IF op = "BININT"
        THEN Load(bytes, i + 1, Append(stack, PyInt(bytes[i].i)), marks)
        ELSE IF op = "MARK"
        THEN Load(bytes, i + 1, stack, Append(marks, Len(stack)))
        ELSE IF op = "EMPTY_DICT"
        THEN Load(bytes, i + 1, Append(stack, PyDict(EmptyMap)), marks)
        ELSE IF op = "EMPTY_SET"
        THEN Load(bytes, i + 1, Append(stack, PySet({})), marks)
        ELSE IF op = "SETITEMS"
        THEN IF marks = << >> THEN Raise("UnpicklingError")
             ELSE Reduced(bytes, i, SetItems(stack, fence, outer), marks)
        ELSE IF op = "ADDITEMS"
        THEN IF marks = << >> THEN Raise("UnpicklingError")
             ELSE Reduced(bytes, i, AddItems(stack, fence, outer), marks)
        ELSE IF op = "STOP"
        THEN IF Len(stack) <= fence THEN Raise("UnpicklingError")
             ELSE Return(stack[Len(stack)])
        ELSE IF op = "NONE"
        THEN Load(bytes, i + 1, Append(stack, PyNone), marks)
        ELSE IF op = "PROTO"
        THEN Load(bytes, i + 1, stack, marks)
        ELSE Raise("UnpicklingError")

\* pickle.load(f)
Unpickle(bytes) == Load(bytes, 1, << >>, << >>)

\* -------------------------------------------------------------- file system

VARIABLES
    fs,      \* file name -> [exists, bytes]: the cache directory
    clock,   \* the system clock, in epoch seconds
    last,    \* the last call: what was called, on what, and how it ended
    inflight \* process -> the call it is in, between its load and its dump

vars == <<fs, clock, last, inflight>>

Absent == [exists |-> FALSE, bytes |-> << >>]
File(bytes) == [exists |-> TRUE, bytes |-> bytes]

\* the exceptions pickle_load catches
Caught == {"UnpicklingError", "EOFError"}

\* os.remove(file_path) succeeds on a file that exists and that rm, the set
\* of names the process may remove, holds; else it raises OSError
Removes(f, name, rm) == f[name].exists /\ name \in rm

RECURSIVE RemoveAllUntilError(_, _, _, _, _)
\* a faulty variant of RemoveAll: the loop ends at the first file that could
\* not be removed
RemoveAllUntilError(f, files, i, rm, error_files) ==
    IF i > Len(files) THEN [fs |-> f, error_files |-> error_files]
    ELSE IF Removes(f, files[i], rm)
    THEN RemoveAllUntilError([f EXCEPT ![files[i]] = Absent], files, i + 1,
                             rm, error_files)
    ELSE [fs |-> f, error_files |-> Append(error_files, files[i])]

RECURSIVE RemoveAll(_, _, _, _, _)
\* the loop of delete_cache_files from files[i] on, error_files being the
\* names it could not remove so far
RemoveAll(f, files, i, rm, error_files) ==
    IF i > Len(files) THEN [fs |-> f, error_files |-> error_files]
    ELSE IF Removes(f, files[i], rm)
    THEN RemoveAll([f EXCEPT ![files[i]] = Absent], files, i + 1, rm,
                   error_files)
    ELSE RemoveAll(f, files, i + 1, rm, Append(error_files, files[i]))

\* the end of delete_cache_files, r being what its loop left: one warning on
\* entry, a second one when some file could not be removed
Deleted(r) ==
    IF Len(r.error_files) > 0
    THEN [fs |-> r.fs, exc |-> "", val |-> FALSE, warns |-> 2]
    ELSE [fs |-> r.fs, exc |-> "", val |-> TRUE, warns |-> 1]

\* delete_cache_files(log_printer, files)
delete_cache_files(f, files, rm) ==
    Deleted(RemoveAll(f, files, 1, rm, << >>))

\* a faulty variant of Recovered: a failed deletion is raised to the caller
RecoveredOrRaised(d, fallback) ==
    IF d.val
    THEN [fs |-> d.fs, exc |-> "", val |-> fallback, warns |-> d.warns]
    ELSE [fs |-> d.fs, exc |-> "OSError", val |-> PyNone, warns |-> d.warns]

\* the except branch of pickle_load, d being what delete_cache_files gave:
\* its result is dropped
Recovered(d, fallback) ==
    [fs |-> d.fs, exc |-> "", val |-> fallback, warns |-> d.warns]

\* a faulty variant of Loaded: the file is removed on every exception
LoadedOrRemoved(f, filename, fallback, rm, r) ==
    IF r.exc = "" THEN [fs |-> f, exc |-> "", val |-> r.val, warns |-> 0]
    ELSE IF r.exc \in Caught
    THEN Recovered(delete_cache_files(f, <<filename>>, rm), fallback)
    ELSE Recovered(delete_cache_files(f, <<filename>>, {filename}), fallback)

\* pickle_load once the file is open, r being what pickle.load gave
Loaded(f, filename, fallback, rm, r) ==
    IF r.exc = "" THEN [fs |-> f, exc |-> "", val |-> r.val, warns |-> 0]
    ELSE IF r.exc \in Caught
    THEN Recovered(delete_cache_files(f, <<filename>>, rm), fallback)
    ELSE [fs |-> f, exc |-> r.exc, val |-> PyNone, warns |-> 0]

\* a faulty variant of pickle_load: None, not the fallback, for a file that
\* is absent
pickle_load_none(f, filename, fallback, rm) ==
    IF ~f[filename].exists
    THEN [fs |-> f, exc |-> "", val |-> PyNone, warns |-> 0]
    ELSE Loaded(f, filename, fallback, rm, Unpickle(f[filename].bytes))

\* pickle_load(log_printer, filename, fallback)
pickle_load(f, filename, fallback, rm) ==
    IF ~f[filename].exists
    THEN [fs |-> f, exc |-> "", val |-> fallback, warns |-> 0]
    ELSE Loaded(f, filename, fallback, rm, Unpickle(f[filename].bytes))

\* a faulty variant of pickle_dump: the file is opened for appending
pickle_dump_append(f, filename, data) ==
    [f EXCEPT ![filename] = File(f[filename].bytes \o Pickle(data))]

\* pickle_dump(log_printer, filename, data): open(filename, "wb") and dump
pickle_dump(f, filename, data) ==
    [f EXCEPT ![filename] = File(Pickle(data))]

\* ------------------------------------------------------------ CacheManager

\* what a call leaves: the files, the exception it raised (or ""), the value
\* it returned and the warnings it logged
Outcome(f, exc, ret, warns) ==
    [fs |-> f, exc |-> exc, ret |-> ret, warns |-> warns]

\* a call that ends in the exception its load l raised
Raised(l) == Outcome(l.fs, l.exc, PyNone, l.warns)

\* a faulty variant of Changed: the project's set is replaced by the new files
ChangedReplacing(data, project_dir, changed_files) ==
    SetItem(data, project_dir, PySet(changed_files))

\* data[project_dir].update(changed_files), or data[project_dir] = changed_files
Changed(data, project_dir, changed_files) ==
    IF project_dir \in DOMAIN data
    THEN SetItem(data, project_dir,
                 PySet(data[project_dir].v \cup changed_files))
    ELSE SetItem(data, project_dir, PySet(changed_files))

\* add_to_changed_files(log_printer, project_dir, changed_files), l being
\* what its pickle_load of changed_files_db gave
add_to_changed_files(l, project_dir, changed_files) ==
    IF l.exc # "" THEN Raised(l)
    ELSE Outcome(pickle_dump(l.fs, changed_files_db,
                             PyDict(Changed(l.val.v, project_dir,
                                            changed_files))),
                 "", PyNone, l.warns)

\* a faulty variant of Get: the empty mapping for a project that has no entry
GetOrEmpty(data, project_dir) ==
    IF project_dir \in DOMAIN data THEN data[project_dir] ELSE PyDict(EmptyMap)

\* data.get(project_dir, None)
Get(data, project_dir) ==
    IF project_dir \in DOMAIN data THEN data[project_dir] ELSE PyNone

\* get_last_coala_run_time(log_printer, project_dir), l being what its
\* pickle_load of caching_db gave
get_last_coala_run_time(l, project_dir) ==
    IF l.exc # "" THEN Raised(l)
    ELSE Outcome(l.fs, "", Get(l.val.v, project_dir), l.warns)

RECURSIVE MarkNew(_, _)
\* for new_file in new_files: last_coala_run[new_file] = -1
MarkNew(m, new_files) ==
    IF new_files = {} THEN m
    ELSE MarkNew(SetItem(m, CHOOSE y \in new_files : TRUE, PyInt(NoTime)),
                 new_files \ {CHOOSE y \in new_files : TRUE})

\* a faulty variant of Marked: a new file that last_coala_run already holds
\* keeps its timestamp
MarkedKeeping(last_coala_run, new_files) ==
    PyDict(MarkNew(IF last_coala_run.t = "none" THEN EmptyMap
                   ELSE last_coala_run.v,
                   IF last_coala_run.t = "none" THEN new_files
                   ELSE new_files \ DOMAIN last_coala_run.v))

\* the mapping add_new_files_since_last_run stores for the project: the
\* caller's last_coala_run object (a new dict when it is None) with the new
\* files marked
Marked(last_coala_run, new_files) ==
    PyDict(MarkNew(IF last_coala_run.t = "none" THEN EmptyMap
                   ELSE last_coala_run.v,
                   new_files))

\* the object the caller passed as last_coala_run, as the call leaves it: the
\* loop assigns into that very dict; for None it assigns into a new one
Aliased(last_coala_run, new_files) ==
    IF last_coala_run.t = "none" THEN PyNone
    ELSE Marked(last_coala_run, new_files)

\* a faulty variant of Stored: the data written holds the project alone
StoredAlone(l, project_dir, run) ==
    IF l.exc # "" THEN Raised(l)
    ELSE Outcome(pickle_dump(l.fs, caching_db,
                             PyDict(SetItem(EmptyMap, project_dir, run))),
                 "", PyNone, l.warns)

\* the end of add_new_files_since_last_run: run goes under the project's key
\* of the data that l, its pickle_load of caching_db, gave
Stored(l, project_dir, run) ==
    IF l.exc # "" THEN Raised(l)
    ELSE Outcome(pickle_dump(l.fs, caching_db,
                             PyDict(SetItem(l.val.v, project_dir, run))),
                 "", PyNone, l.warns)

\* add_new_files_since_last_run(log_printer, project_dir, last_coala_run,
\* new_files), l being what its pickle_load of caching_db gave
add_new_files_since_last_run(l, project_dir, last_coala_run, new_files) ==
    Stored(l, project_dir, Marked(last_coala_run, new_files))

\* a faulty variant of Advance: the time written is one second behind
AdvanceBehind(entry, project_dir, changed_files, current_time) ==
    [file_name \in DOMAIN entry |->
        IF project_dir \notin DOMAIN changed_files
           \/ file_name \notin changed_files[project_dir].v
        THEN PyInt(current_time - 1)
        ELSE entry[file_name]]

\* a faulty variant of Advance: a file at the sentinel is never advanced
AdvanceKeepingSentinel(entry, project_dir, changed_files, current_time) ==
    [file_name \in DOMAIN entry |->
        IF entry[file_name] = PyInt(NoTime) THEN entry[file_name]
        ELSE PyInt(current_time)]

\* a faulty variant of Advance: every file gets the current time
AdvanceAll(entry, project_dir, changed_files, current_time) ==
    [file_name \in DOMAIN entry |-> PyInt(current_time)]

\* the loop of update_last_coala_run_time over the files of the project
Advance(entry, project_dir, changed_files, current_time) ==
    [file_name \in DOMAIN entry |->
        IF project_dir \notin DOMAIN changed_files
           \/ file_name \notin changed_files[project_dir].v
        THEN PyInt(current_time)
        ELSE entry[file_name]]

\* a faulty variant of Persist: the changed files are not written back
PersistRunTimes(f, data, changed_files) ==
    pickle_dump(f, caching_db, PyDict(data))

\* the two pickle_dump calls that end update_last_coala_run_time
Persist(f, data, changed_files) ==
    pickle_dump(pickle_dump(f, caching_db, PyDict(data)),
                changed_files_db, PyDict(changed_files))

\* a faulty variant of update_last_coala_run_time: the changed files of the
\* project are reset before the project is looked up
UpdateResetsUnregistered(l1, l2, project_dir, current_time) ==
    IF l1.exc # "" THEN Raised(l1)
    ELSE IF l2.exc # ""
    THEN Outcome(l2.fs, l2.exc, PyNone, l1.warns + l2.warns)
    ELSE IF project_dir \notin DOMAIN l1.val.v
    THEN Outcome(pickle_dump(l2.fs, changed_files_db,
                             PyDict(SetItem(l2.val.v, project_dir,
                                            PySet({})))),
                 "", PyNone, l1.warns + l2.warns)
    ELSE Outcome(Persist(l2.fs,
                         SetItem(l1.val.v, project_dir,
                                 PyDict(Advance(l1.val.v[project_dir].v,
                                                project_dir, l2.val.v,
                                                current_time))),
                         SetItem(l2.val.v, project_dir, PySet({}))),
                 "", PyNone, l1.warns + l2.warns)

\* update_last_coala_run_time(log_printer, project_dir), l1 and l2 being what
\* its pickle_load of caching_db and then of changed_files_db gave
update_last_coala_run_time(l1, l2, project_dir, current_time) ==
    IF l1.exc # "" THEN Raised(l1)
    ELSE IF l2.exc # ""
    THEN Outcome(l2.fs, l2.exc, PyNone, l1.warns + l2.warns)
    ELSE IF project_dir \notin DOMAIN l1.val.v
    THEN Outcome(l2.fs, "", PyNone, l1.warns + l2.warns)
    ELSE Outcome(Persist(l2.fs,
                         SetItem(l1.val.v, project_dir,
                                 PyDict(Advance(l1.val.v[project_dir].v,
                                                project_dir, l2.val.v,
                                                current_time))),
                         SetItem(l2.val.v, project_dir, PySet({}))),
                 "", PyNone, l1.warns + l2.warns)

\* the second pickle_load of a call, made on the files the first one left and
\* only when the first one returned
Then(l1, filename, fallback, rm) ==
    IF l1.exc # "" THEN l1 ELSE pickle_load(l1.fs, filename, fallback, rm)

\* a faulty variant of FirstDump: the changed_files_db is written first
FirstDumpSwapped(f, data, changed_files) ==
    pickle_dump(f, changed_files_db, PyDict(changed_files))

\* the first of the two pickle_dump calls that end
\* update_last_coala_run_time
FirstDump(f, data, changed_files) ==
    pickle_dump(f, caching_db, PyDict(data))

\* update_last_coala_run_time on a project that data holds, when the process
\* stops between the two pickle_dump calls
update_stopped(l1, l2, project_dir, current_time) ==
    Outcome(FirstDump(l2.fs,
                      SetItem(l1.val.v, project_dir,
                              PyDict(Advance(l1.val.v[project_dir].v,
                                             project_dir, l2.val.v,
                                             current_time))),
                      SetItem(l2.val.v, project_dir, PySet({}))),
            "", PyNone, l1.warns + l2.warns)

\* ----------------------------------------------------------------- actions

PyBool(b) == [t |-> "bool", v |-> b]

\* the record of a call: its name, its arguments, and how it ended
Call(op, project, name, args, o) ==
    [op |-> op, project |-> project, name |-> name, args |-> args,
     exc |-> o.exc, ret |-> o.ret, warns |-> o.warns]

\* the outcome of a pickle_load that gave l
Returned(l) == Outcome(l.fs, l.exc, l.val, l.warns)

\* the outcome of a delete_cache_files that gave d
ReturnedBool(d) == Outcome(d.fs, "", PyBool(d.val), d.warns)

\* the last_coala_run arguments for a project: None, what
\* get_last_coala_run_time gave for it (stored), or every file of the project
\* at the time on the clock
PriorData(project_dir, stored) ==
    {PyNone, stored,
     PyDict([x \in ProjectFiles[project_dir] |-> PyInt(clock)])}

\* the contents the test suite and the doctests pickle
SampleValues ==
    {PyNone, PyInt(42), PyDict(EmptyMap),
     PyDict([k \in {"answer"} |-> PyInt(42)]),
     PySet({"a.c", "b.c"}),
     PyDict([k \in {"P"} |-> PyDict([x \in {"a.c"} |-> PyInt(NoTime)])])}

Fallbacks == {PyNone, PyInt(42), PyDict(EmptyMap)}

\* bytes that are no pickle: an invalid load key (the test suite's file of
\* 0x01 bytes), a pickle cut before its STOP, and a dict keyed by a dict
InvalidKey == <<Op("0x01")>>
Truncated ==
    <<Op("PROTO"), Op("EMPTY_DICT"), Op("MARK"), Tok("BINUNICODE", "P", 0)>>
Unhashable ==
    <<Op("EMPTY_DICT"), Op("MARK"), Op("EMPTY_DICT"), Tok("BININT", "", 1),
      Op("SETITEMS"), Op("STOP")>>

\* the step of a call: what it leaves in the files, and the record of it
Done(op, project, name, args, o, time) ==
    /\ fs' = o.fs
    /\ last' = Call(op, project, name, args, o)
    /\ clock' = time
    /\ inflight' = inflight

\* the files among names that pickle_load would try to remove: rm ranges over
\* the sets of them that os.remove succeeds on
Unloadable(names) ==
    {n \in names : fs[n].exists /\ Unpickle(fs[n].bytes).exc \in Caught}

\* the processes that may run the module at the same time
Procs == {1, 2}

\* a process that is in no call
Idle == [at |-> "idle", op |-> "", project |-> "", args |-> << >>,
         data |-> PyNone]

Init ==
    /\ fs = [n \in FileNames |-> Absent]
    /\ clock = 0
    /\ last = Call("init", "", "", << >>, Outcome(fs, "", PyNone, 0))
    /\ inflight = [p \in Procs |-> Idle]

AddToChangedFilesAfter(l) ==
    \E project_dir \in Projects :
    \E changed_files \in SUBSET ProjectFiles[project_dir] :
        Done("add_to_changed_files", project_dir, "", <<PySet(changed_files)>>,
             add_to_changed_files(l, project_dir, changed_files), clock)

AddToChangedFiles ==
    \E rm \in SUBSET Unloadable({changed_files_db}) :
        AddToChangedFilesAfter(
            pickle_load(fs, changed_files_db, PyDict(EmptyMap), rm))

GetLastCoalaRunTimeAfter(l) ==
    \E project_dir \in Projects :
        Done("get_last_coala_run_time", project_dir, "", << >>,
             get_last_coala_run_time(l, project_dir), clock)

GetLastCoalaRunTime ==
    \E rm \in SUBSET Unloadable({caching_db}) :
        GetLastCoalaRunTimeAfter(
            pickle_load(fs, caching_db, PyDict(EmptyMap), rm))

\* a call of add_new_files_since_last_run: its record keeps the two arguments
\* as they were passed and the last_coala_run object as the call leaves it
AddNewFilesSinceLastRunAfter(l) ==
    \E project_dir \in Projects :
    \E last_coala_run \in PriorData(project_dir,
                                     IF l.exc = "" THEN Get(l.val.v, project_dir)
                                     ELSE PyNone),
       new_files \in SUBSET ProjectFiles[project_dir] :
        Done("add_new_files_since_last_run", project_dir, "",
             <<last_coala_run, PySet(new_files),
               Aliased(last_coala_run, new_files)>>,
             add_new_files_since_last_run(l, project_dir, last_coala_run,
                                          new_files),
             clock)

AddNewFilesSinceLastRun ==
    \E rm \in SUBSET Unloadable({caching_db}) :
        AddNewFilesSinceLastRunAfter(
            pickle_load(fs, caching_db, PyDict(EmptyMap), rm))

UpdateLastCoalaRunTimeAfter(l1, l2) ==
    \E project_dir \in Projects, current_time \in clock..MaxClock :
        Done("update_last_coala_run_time", project_dir, "", << >>,
             update_last_coala_run_time(l1, l2, project_dir, current_time),
             current_time)

UpdateLastCoalaRunTimeLoaded(l1, rm) ==
    UpdateLastCoalaRunTimeAfter(
        l1, Then(l1, changed_files_db, PyDict(EmptyMap), rm))

\* the call reads the clock, which has not run backwards since it was last
\* read, and loads the two stores
UpdateLastCoalaRunTime ==
    \E rm \in SUBSET Unloadable(StoreFiles) :
        UpdateLastCoalaRunTimeLoaded(
            pickle_load(fs, caching_db, PyDict(EmptyMap), rm), rm)

UpdateStoppedAfter(l1, l2) ==
    /\ l1.exc = ""
    /\ l2.exc = ""
    /\ \E project_dir \in Projects \cap DOMAIN l1.val.v,
          current_time \in clock..MaxClock :
           Done("update_stopped", project_dir, "", << >>,
                update_stopped(l1, l2, project_dir, current_time),
                current_time)

UpdateStoppedLoaded(l1, rm) ==
    UpdateStoppedAfter(l1, Then(l1, changed_files_db, PyDict(EmptyMap), rm))

\* the process is killed inside update_last_coala_run_time, after the dump of
\* the caching_db and before the dump of the changed_files_db
UpdateStopped ==
    \E rm \in SUBSET Unloadable(StoreFiles) :
        UpdateStoppedLoaded(
            pickle_load(fs, caching_db, PyDict(EmptyMap), rm), rm)

\* delete_cache_files called on its own on the files of one list: the record
\* of the call keeps the files of the list and the set rm of names os.remove
\* succeeds on
DeleteCacheFiles(lists) ==
    \E files \in lists :
    \E rm \in SUBSET {files[i] : i \in {j \in 1..Len(files) : fs[files[j]].exists}} :
        Done("delete_cache_files", "", files[1],
             <<PySet({files[i] : i \in 1..Len(files)}), PySet(rm)>>,
             ReturnedBool(delete_cache_files(fs, files, rm)), clock)

PickleLoad ==
    \E filename \in FileNames, fallback \in Fallbacks :
    \E rm \in SUBSET Unloadable({filename}) :
        Done("pickle_load", "", filename, <<fallback>>,
             Returned(pickle_load(fs, filename, fallback, rm)), clock)

PickleDump ==
    \E filename \in FileNames, data \in SampleValues :
        Done("pickle_dump", "", filename, <<data>>,
             Outcome(pickle_dump(fs, filename, data), "", PyNone, 0), clock)

\* another program writes bytes that are no pickle into a cache file
Corrupt(names, blobs) ==
    \E name \in names, bytes \in blobs :
        Done("corrupt", "", name, << >>,
             Outcome([fs EXCEPT ![name] = File(bytes)], "", PyNone, 0), clock)

Next ==
    \/ AddToChangedFiles
    \/ GetLastCoalaRunTime
    \/ AddNewFilesSinceLastRun
    \/ UpdateLastCoalaRunTime
    \/ DeleteCacheFiles({<<caching_db, changed_files_db>>})
    \/ Corrupt(StoreFiles, {InvalidKey, Unhashable})

Spec == Init /\ [][Next]_vars

CrashNext == Next \/ UpdateStopped

CrashSpec == Init /\ [][CrashNext]_vars

SerializerNext ==
    \/ PickleLoad
    \/ PickleDump
    \/ DeleteCacheFiles({<<n>> : n \in FileNames})
    \/ Corrupt(FileNames, {InvalidKey, Truncated, Unhashable})

SerializerSpec == Init /\ [][SerializerNext]_vars

\* ---------------------------------------------------- calls that interleave

\* the store file that an operation loads and dumps
StoreOf(op) ==
    IF op = "add_to_changed_files" THEN changed_files_db ELSE caching_db

\* a faulty variant of Held: the file is read again when the call resumes
HeldFresh(data, f, filename) ==
    pickle_load(f, filename, PyDict(EmptyMap), {})

\* what a call holds of its pickle_load of filename while other processes
\* run: the local variable data, beside the files f as they are by now
Held(data, f, filename) ==
    [fs |-> f, exc |-> "", val |-> data, warns |-> 0]

\* the rest of the call c after its load, on the files f
Resumed(c, f) ==
    IF c.op = "add_to_changed_files"
    THEN add_to_changed_files(Held(c.data, f, changed_files_db), c.project,
                              c.args[1].v)
    ELSE add_new_files_since_last_run(Held(c.data, f, caching_db), c.project,
                                      c.args[1], c.args[2].v)

\* process p enters a call and runs it up to the end of its pickle_load
Begun(p, op, project, args, l) ==
    /\ l.exc = ""
    /\ inflight' = [inflight EXCEPT ![p] =
                       [at |-> "loaded", op |-> op, project |-> project,
                        args |-> args, data |-> l.val]]
    /\ fs' = l.fs
    /\ UNCHANGED <<clock, last>>

BeginCall(p) ==
    /\ inflight[p].at = "idle"
    /\ \E project \in Projects :
       \E files \in SUBSET ProjectFiles[project] :
         \/ Begun(p, "add_to_changed_files", project, <<PySet(files)>>,
                  pickle_load(fs, changed_files_db, PyDict(EmptyMap), {}))
         \/ Begun(p, "add_new_files_since_last_run", project,
                  <<PyNone, PySet(files)>>,
                  pickle_load(fs, caching_db, PyDict(EmptyMap), {}))

\* process p runs its call from the load to the end: the mutation and the dump
Ended(p, c, o) ==
    /\ fs' = o.fs
    /\ last' = Call(c.op, c.project, "", c.args, o)
    /\ inflight' = [inflight EXCEPT ![p].at = "dumped"]
    /\ UNCHANGED clock

EndCall(p) ==
    /\ inflight[p].at = "loaded"
    /\ Ended(p, inflight[p], Resumed(inflight[p], fs))

RaceNext == \E p \in Procs : BeginCall(p) \/ EndCall(p)

RaceSpec == Init /\ [][RaceNext]_vars

\* ------------------------------------------------------------ observations

\* the mapping a store file holds: the empty mapping when the file is absent
\* or is no pickle
Decoded(r) == IF r.exc = "" THEN r.val.v ELSE EmptyMap
Data(f, name) ==
    IF f[name].exists THEN Decoded(Unpickle(f[name].bytes)) ELSE EmptyMap

\* the file is absent or holds a pickle
Readable(f, name) == ~f[name].exists \/ Unpickle(f[name].bytes).exc = ""

RunTimeStore == Data(fs, caching_db)
ChangedFilesStore == Data(fs, changed_files_db)

\* the set of changed files a store holds for a project, none without an entry
ChangedOf(changed, project) ==
    IF project \in DOMAIN changed THEN changed[project].v ELSE {}

\* the last step was a call of op that returned
Returns(op) == last'.op = op /\ last'.exc = ""

\* -------------------------------------------------------------- properties

\* C1 as a relation between the stores before (data, changed) and the run-time
\* store after (data2) an update_last_coala_run_time(project) that read `now`
C1_Advanced(project, data, changed, data2, now) ==
    project \in DOMAIN data =>
        /\ project \in DOMAIN data2
        /\ DOMAIN data2[project].v = DOMAIN data[project].v
        /\ \A x \in DOMAIN data[project].v :
              data2[project].v[x] =
                  IF x \in ChangedOf(changed, project)
                  THEN data[project].v[x]
                  ELSE PyInt(now)

\* C1: update_last_coala_run_time(P) on a project with a RunTimeStore entry
\* leaves the timestamp of every file of P listed in P's ChangedFilesStore
\* entry at its value before the call, sets the timestamp of every other file
\* of P to the clock value the call read, and keeps P's set of file paths.
C1_AdvanceKeepsChangedFiles ==
    [][Returns("update_last_coala_run_time") =>
          C1_Advanced(last'.project, RunTimeStore, ChangedFilesStore,
                      Data(fs', caching_db), clock')]_vars

\* a changed file of P kept the sentinel while the other file of P got the time
\* the call read
C1_Witness ==
    /\ last.op = "update_last_coala_run_time"
    /\ last.exc = ""
    /\ last.project = "P"
    /\ "P" \in DOMAIN RunTimeStore
    /\ DOMAIN RunTimeStore["P"].v = {"a.c", "b.c"}
    /\ RunTimeStore["P"].v["a.c"] = PyInt(NoTime)
    /\ RunTimeStore["P"].v["b.c"] = PyInt(clock)
    /\ clock = 1

C2_Reset(project, data, changed2) ==
    project \in DOMAIN data =>
        project \in DOMAIN changed2 /\ changed2[project] = PySet({})

\* C2: after update_last_coala_run_time(P) completes on a project that has a
\* RunTimeStore entry, P's ChangedFilesStore entry exists and is the empty set.
C2_AdvanceResetsChangedFiles ==
    [][Returns("update_last_coala_run_time") =>
          C2_Reset(last'.project, RunTimeStore,
                   Data(fs', changed_files_db))]_vars

\* the call found files recorded as changed for P, and left none
C2_Witness ==
    /\ last.op = "update_last_coala_run_time"
    /\ last.exc = ""
    /\ last.project = "P"
    /\ "P" \in DOMAIN RunTimeStore
    /\ RunTimeStore["P"].v = [x \in {"a.c"} |-> PyInt(NoTime)]
    /\ "P" \in DOMAIN ChangedFilesStore
    /\ ChangedFilesStore["P"] = PySet({})

\* what a caller of get_last_coala_run_time(project) is given on the files f
\* when no removal fails
LastRun(f, project) ==
    get_last_coala_run_time(pickle_load(f, caching_db, PyDict(EmptyMap),
                                        FileNames),
                            project).ret

C3_NoOp(project, data, f, f2, exc) ==
    (Readable(f, caching_db) /\ Readable(f, changed_files_db)
        /\ project \notin DOMAIN data)
    => /\ exc = ""
       /\ f2 = f
       /\ LastRun(f2, project) = PyNone

\* C3: update_last_coala_run_time(P) on a project without a RunTimeStore entry,
\* on readable stores, does not raise, leaves get_last_coala_run_time(P)
\* absent and leaves both store files as they were, P's changed files included.
C3_AdvanceSkipsUnregistered ==
    [][last'.op = "update_last_coala_run_time" =>
          C3_NoOp(last'.project, RunTimeStore, fs, fs', last'.exc)]_vars

\* the call was made for P, which is not registered and whose changed files
\* are still recorded
C3_Witness ==
    /\ last.op = "update_last_coala_run_time"
    /\ last.exc = ""
    /\ last.project = "P"
    /\ Readable(fs, caching_db)
    /\ "P" \notin DOMAIN RunTimeStore
    /\ ChangedOf(ChangedFilesStore, "P") = {"a.c"}

\* the mapping C4 expects: priorData with every new path at the sentinel
C4_Expected(prior, new_files) ==
    PyDict([x \in (IF prior.t = "none" THEN {} ELSE DOMAIN prior.v)
                      \cup new_files |->
               IF x \in new_files THEN PyInt(NoTime) ELSE prior.v[x]])

\* C4: after add_new_files_since_last_run(P, priorData, newPaths),
\* get_last_coala_run_time(P) is priorData (empty when absent) with every path
\* of newPaths at -1, whatever was stored for P before.
C4_RegisterReplacesEntry ==
    [][Returns("add_new_files_since_last_run") =>
          PyEq(LastRun(fs', last'.project),
               C4_Expected(last'.args[1], last'.args[2].v))]_vars

\* a path of newPaths that had a timestamp in priorData is back at -1, beside
\* a path of priorData that kept its timestamp
C4_Witness ==
    /\ last.op = "add_new_files_since_last_run"
    /\ last.exc = ""
    /\ last.project = "P"
    /\ last.args[1] = PyDict([x \in {"a.c", "b.c"} |-> PyInt(1)])
    /\ last.args[2] = PySet({"a.c"})
    /\ LastRun(fs, "P")
         = PyDict([x \in {"a.c", "b.c"} |->
                      IF x = "a.c" THEN PyInt(NoTime) ELSE PyInt(1)])

C5_Union(project, changed, changed2, changed_files, f, f2) ==
    /\ project \in DOMAIN changed2
    /\ changed2[project]
         = PySet(ChangedOf(changed, project) \cup changed_files)
    /\ f2[caching_db] = f[caching_db]

\* C5: after add_to_changed_files(P, changedPaths), P's ChangedFilesStore entry
\* is its set before the call united with changedPaths (changedPaths alone
\* when P had no entry), and the RunTimeStore is as it was.
C5_RecordIsUnion ==
    [][Returns("add_to_changed_files") =>
          C5_Union(last'.project, ChangedFilesStore,
                   Data(fs', changed_files_db), last'.args[1].v, fs, fs')]_vars

\* the call added b.c to a set that held a.c
C5_Witness ==
    /\ last.op = "add_to_changed_files"
    /\ last.exc = ""
    /\ last.project = "P"
    /\ last.args[1] = PySet({"b.c"})
    /\ ChangedOf(ChangedFilesStore, "P") = {"a.c", "b.c"}

C6_Get(project, data, ret, f, f2) ==
    /\ ret.t = "none" <=> project \notin DOMAIN data
    /\ project \in DOMAIN data => PyEq(ret, data[project])
    /\ Readable(f, caching_db) => f2 = f

C6_ZeroFiles(project, args, f2) ==
    (args[2] = PySet({}) /\ (args[1].t = "none" \/ args[1] = PyDict(EmptyMap)))
    => PyEq(LastRun(f2, project), PyDict(EmptyMap))

\* C6: get_last_coala_run_time(P) returns None exactly when P has no entry in
\* the RunTimeStore and the stored mapping otherwise, without changing a
\* readable store; a project registered with no file yields the empty mapping.
C6_AbsentIffUnregistered ==
    [][/\ Returns("get_last_coala_run_time") =>
              C6_Get(last'.project, RunTimeStore, last'.ret, fs, fs')
       /\ Returns("add_new_files_since_last_run") =>
              C6_ZeroFiles(last'.project, last'.args, fs')]_vars

\* the call returned the empty mapping of a project registered with no file
C6_Witness ==
    /\ last.op = "get_last_coala_run_time"
    /\ last.exc = ""
    /\ last.project = "P"
    /\ last.ret = PyDict(EmptyMap)
    /\ LastRun(fs, "Q") = PyNone

\* the entry of a project in a store, None without one
EntryOf(data, project) ==
    IF project \in DOMAIN data THEN data[project] ELSE PyNone

CacheManagerOps ==
    {"add_to_changed_files", "add_new_files_since_last_run",
     "update_last_coala_run_time", "get_last_coala_run_time"}

\* the store file name holds for every project but this one the entry it
\* held: its bytes are as they were, or they decode to the same entries
C7_Isolated(project, f, f2, name) ==
    \/ f2[name] = f[name]
    \/ \A q \in Projects \ {project} :
           PyEq(EntryOf(Data(f2, name), q), EntryOf(Data(f, name), q))

\* C7: from store files that are absent or hold a pickle, an operation on
\* project P leaves the RunTimeStore entry and the ChangedFilesStore entry of
\* every other project Q as they were, their absence included.
C7_ProjectsIsolated ==
    [][last'.op \in CacheManagerOps
       => \/ /\ C7_Isolated(last'.project, fs, fs', caching_db)
             /\ C7_Isolated(last'.project, fs, fs', changed_files_db)
          \/ ~Readable(fs, caching_db)
          \/ ~Readable(fs, changed_files_db)]_vars

\* P was advanced while Q held a file at the sentinel and a changed file
C7_Witness ==
    /\ last.op = "update_last_coala_run_time"
    /\ last.exc = ""
    /\ last.project = "P"
    /\ LastRun(fs, "P") = PyDict([x \in {"a.c"} |-> PyInt(1)])
    /\ LastRun(fs, "Q") = PyDict([x \in {"a.c"} |-> PyInt(NoTime)])
    /\ ChangedOf(ChangedFilesStore, "Q") = {"a.c"}
    /\ ChangedOf(ChangedFilesStore, "P") = {}
    /\ clock = 1

\* delete_cache_files logs its second warning when os.remove failed
RemovalFailed(call) == call.warns = 2

C8_Healed(f, f2, call) ==
    (f[call.name].exists /\ Unpickle(f[call.name].bytes).exc # ""
        /\ ~RemovalFailed(call))
    => /\ call.exc = ""
       /\ call.ret = call.args[1]
       /\ ~f2[call.name].exists

\* C8: pickle_load(name, fallback) of a file that exists and that pickle.load
\* cannot deserialize returns fallback without raising, and the file does not
\* exist afterwards; stated for the calls in which os.remove does not fail.
C8_CorruptionSelfHeals ==
    [][last'.op = "pickle_load" => C8_Healed(fs, fs', last')]_vars

\* C9: a pickle_load(name, fallback) that directly follows pickle_dump(name, v)
\* returns v without raising and without a warning, for every fallback and
\* whatever the file held before the dump.
C9_RoundTrip ==
    [][(last.op = "pickle_dump" /\ last'.op = "pickle_load"
          /\ last'.name = last.name)
       => /\ last'.exc = ""
          /\ PyEq(last'.ret, last.args[1])
          /\ last'.warns = 0
          /\ fs' = fs]_vars

\* a load with fallback 42 returned the nested mapping that the file holds
C9_Witness ==
    /\ last.op = "pickle_load"
    /\ last.exc = ""
    /\ last.args[1] = PyInt(42)
    /\ last.ret = PyDict([k \in {"P"} |->
                             PyDict([x \in {"a.c"} |-> PyInt(NoTime)])])
    /\ fs[last.name] = File(Pickle(last.ret))

\* C10: pickle_load of a name whose file does not exist returns the fallback
\* (None when that is the fallback), logs no warning and leaves every file as
\* it was; neither pickle_load nor delete_cache_files brings a file into
\* existence.
C10_DefaultOnAbsence ==
    [][/\ (last'.op = "pickle_load" /\ ~fs[last'.name].exists)
              => /\ last'.exc = ""
                 /\ last'.ret = last'.args[1]
                 /\ last'.warns = 0
                 /\ fs' = fs
       /\ last'.op \in {"pickle_load", "delete_cache_files"}
              => \A n \in FileNames : fs'[n].exists => fs[n].exists]_vars

\* a load of an absent file returned the fallback 42 silently, next to a
\* file that a dump created
C10_Witness ==
    /\ last.op = "pickle_load"
    /\ last.exc = ""
    /\ last.name = test_file
    /\ ~fs[test_file].exists
    /\ last.args[1] = PyInt(42)
    /\ last.ret = PyInt(42)
    /\ last.warns = 0
    /\ fs[caching_db].exists

C11_Deleted(f, f2, call, files, rm) ==
    /\ call.exc = ""
    /\ call.ret = PyBool(\A n \in files : f[n].exists /\ ~f2[n].exists)
    /\ (\E n \in files : ~f[n].exists \/ n \notin rm) => call.ret = PyBool(FALSE)
    /\ \A n \in files : (f[n].exists /\ n \in rm) => ~f2[n].exists
    /\ \A n \in FileNames \ files : f2[n] = f[n]

\* C11: delete_cache_files(files) never raises and returns True exactly when
\* every file of the list existed and was removed by the call; a file that is
\* absent or that os.remove fails on makes it return False, and every other
\* file of the list that can be removed is removed all the same.
C11_DeleteReportsAll ==
    [][last'.op = "delete_cache_files" =>
          C11_Deleted(fs, fs', last', last'.args[1].v, last'.args[2].v)]_vars

\* the call returned False for a first file that was absent, and removed the
\* second file of the list
C11_Witness ==
    /\ last.op = "delete_cache_files"
    /\ last.exc = ""
    /\ last.ret = PyBool(FALSE)
    /\ last.args[1] = PySet({caching_db, changed_files_db})
    /\ last.args[2] = PySet({changed_files_db})
    /\ ~fs[caching_db].exists
    /\ ~fs[changed_files_db].exists

\* the store with the one entry an operation on project makes from nothing
C12_FromEmpty(project, entry) == SetItem(EmptyMap, project, entry)

C12_AsEmpty(f, f2, call) ==
    /\ call.exc = ""
    /\ call.op = "get_last_coala_run_time" => call.ret = PyNone /\ f2 = f
    /\ call.op = "add_to_changed_files" =>
           Data(f2, changed_files_db) = C12_FromEmpty(call.project, call.args[1])
    /\ call.op = "add_new_files_since_last_run" =>
           Data(f2, caching_db)
             = C12_FromEmpty(call.project,
                             C4_Expected(call.args[1], call.args[2].v))

\* C12: when the pickle_load of an operation finds its file corrupted and the
\* deletion of the file fails (the second warning is logged), nothing is
\* raised and the operation goes on from the fallback, the empty store:
\* get_last_coala_run_time returns None, add_to_changed_files and
\* add_new_files_since_last_run write a store that holds their entry alone.
C12_FailedDeletionIsDropped ==
    [][(last'.op \in {"get_last_coala_run_time", "add_to_changed_files",
                      "add_new_files_since_last_run"}
          /\ RemovalFailed(last'))
       => C12_AsEmpty(fs, fs', last')]_vars

\* add_to_changed_files went on after a deletion that failed
C12_Witness ==
    /\ last.op = "add_to_changed_files"
    /\ last.exc = ""
    /\ RemovalFailed(last)
    /\ last.project = "Q"
    /\ last.args[1] = PySet({"a.c"})
    /\ ChangedFilesStore = C12_FromEmpty("Q", PySet({"a.c"}))

\* the store that the call c writes from the data it loaded
C13_Written(c) ==
    IF c.op = "add_to_changed_files"
    THEN SetItem(c.data.v, c.project,
                 PySet(ChangedOf(c.data.v, c.project) \cup c.args[1].v))
    ELSE SetItem(c.data.v, c.project, C4_Expected(c.args[1], c.args[2].v))

C13_LastWriterWins(c, f2) ==
    /\ Data(f2, StoreOf(c.op)) = C13_Written(c)
    /\ \A q \in Projects \ {c.project} :
           PyEq(EntryOf(Data(f2, StoreOf(c.op)), q), EntryOf(c.data.v, q))

\* C13: the dump that ends a call writes the store that the call loaded with
\* its own update, whatever other calls dumped into the file since that load;
\* the entry of every other project is again what the call loaded, so an
\* update for Q dumped between the load and the dump of a call for P is lost.
C13_LostUpdate ==
    [][\A p \in Procs :
          (inflight[p].at = "loaded" /\ inflight'[p].at = "dumped")
          => C13_LastWriterWins(inflight[p], fs')]_vars

\* both calls loaded the empty store; the one for Q dumped first, the one for
\* P last, and the changed files of Q are gone
C13_Witness ==
    /\ inflight[1] = [at |-> "dumped", op |-> "add_to_changed_files",
                      project |-> "Q", args |-> <<PySet({"a.c"})>>,
                      data |-> PyDict(EmptyMap)]
    /\ inflight[2] = [at |-> "dumped", op |-> "add_to_changed_files",
                      project |-> "P", args |-> <<PySet({"b.c"})>>,
                      data |-> PyDict(EmptyMap)]
    /\ last.project = "P"
    /\ ChangedFilesStore = C12_FromEmpty("P", PySet({"b.c"}))

\* C14: add_new_files_since_last_run does not modify the mapping that the
\* caller passed as last_coala_run: after the call that object is what it was
\* when it was passed.
C14_PriorDataUntouched ==
    [][last'.op = "add_new_files_since_last_run" =>
          last'.args[3] = last'.args[1]]_vars

\* the store files that an operation loads
C15_Loads(op) ==
    CASE op \in {"get_last_coala_run_time", "add_new_files_since_last_run"}
             -> {caching_db}
      [] op = "add_to_changed_files" -> {changed_files_db}
      [] op = "update_last_coala_run_time" -> StoreFiles
      [] OTHER -> {}

\* the step removed the store file n
C15_Destroyed(f, f2, n) == f[n].exists /\ ~f2[n].exists

\* the operation loaded n and its pickle.load raised what pickle_load catches
C15_Detected(f, op, n) ==
    n \in C15_Loads(op) /\ Unpickle(f[n].bytes).exc \in Caught

\* C15 as stated: a store file goes from present to absent only in a step in
\* which a load of that file detected a deserialization failure.
C15_DestroyedOnlyOnCorruption ==
    [][\A n \in StoreFiles :
          C15_Destroyed(fs, fs', n) => C15_Detected(fs, last'.op, n)]_vars

\* C15, amended: a store file goes from present to absent only in a direct
\* call of delete_cache_files, or in an operation whose load of that file
\* raised UnpicklingError or EOFError; no CacheManager operation removes a
\* store file that holds a pickle.
C15_DestroyedOnlyByDelete ==
    [][\A n \in StoreFiles :
          C15_Destroyed(fs, fs', n)
          => \/ last'.op = "delete_cache_files"
             \/ C15_Detected(fs, last'.op, n)]_vars

\* get_last_coala_run_time removed the corrupted caching_db and left the
\* changed_files_db, which holds a pickle, in place
C15_Witness ==
    /\ last.op = "get_last_coala_run_time"
    /\ last.exc = ""
    /\ last.warns = 1
    /\ ~fs[caching_db].exists
    /\ fs[changed_files_db].exists
    /\ ChangedOf(ChangedFilesStore, "P") = {"a.c"}

\* project is registered and none of its files is recorded as changed
C16_Consumed(data, changed, project) ==
    project \in DOMAIN data /\ ChangedOf(changed, project) = {}

\* every file of the project carries the time now
C16_AllAt(data2, project, now) ==
    /\ project \in DOMAIN data2
    /\ \A x \in DOMAIN data2[project].v : data2[project].v[x] = PyInt(now)

\* the call is one that C16 excludes between the two advances of project
C16_Touches(call, project) ==
    /\ call.project = project
    /\ call.op \in {"add_to_changed_files", "add_new_files_since_last_run"}

\* the second of two advances of the same project that follow each other
C16_SecondAdvance ==
    (last.op = "update_last_coala_run_time" /\ last.exc = ""
        /\ Returns("update_last_coala_run_time")
        /\ last'.project = last.project
        /\ last.project \in DOMAIN RunTimeStore)
    => /\ DOMAIN Data(fs', caching_db)[last.project].v
            = DOMAIN RunTimeStore[last.project].v
       /\ C16_AllAt(Data(fs', caching_db), last.project, clock')

\* the projects that the call leaves alone and that were consumed before it,
\* in the stores data and changed, are consumed after it, in data2 and changed2
C16_Stays(call, data, changed, data2, changed2) ==
    \A project \in Projects :
        (~C16_Touches(call, project) /\ C16_Consumed(data, changed, project))
        => C16_Consumed(data2, changed2, project)

\* an operation that C16 allows between the two advances keeps the project
\* registered and without changed files
C16_StaysConsumed ==
    (last'.op \in CacheManagerOps /\ fs' # fs)
    => C16_Stays(last', RunTimeStore, ChangedFilesStore,
                 Data(fs', caching_db), Data(fs', changed_files_db))

\* an advance of a project without changed files brings every file to now
C16_AdvancesAll ==
    (Returns("update_last_coala_run_time")
        /\ C16_Consumed(RunTimeStore, ChangedFilesStore, last'.project))
    => C16_AllAt(Data(fs', caching_db), last'.project, clock')

\* C16: after two update_last_coala_run_time(P) calls on a registered project
\* with no add_to_changed_files(P, ...) and no add_new_files_since_last_run(P,
\* ...) between them, every file of P carries the clock value of the second
\* call: back to back, and across the operations allowed in between, which
\* keep P without changed files until an advance that brings every file to
\* its clock value.
C16_ChangeConsumedOnce ==
    [][C16_SecondAdvance /\ C16_StaysConsumed /\ C16_AdvancesAll]_vars

\* the second advance of P left both files at its clock value, past the
\* time of the first
C16_Witness ==
    /\ last.op = "update_last_coala_run_time"
    /\ last.exc = ""
    /\ last.project = "P"
    /\ clock = 1
    /\ LastRun(fs, "P") = PyDict([x \in {"a.c", "b.c"} |-> PyInt(1)])
    /\ "P" \in DOMAIN ChangedFilesStore
    /\ ChangedFilesStore["P"] = PySet({})
    /\ LastRun(fs, "Q") = PyNone

\* the changed_files_db exists and pickle.load cannot deserialize it
C17_Corrupted(f) ==
    f[changed_files_db].exists
        /\ Unpickle(f[changed_files_db].bytes).exc # ""

C17_AsUnchanged(f2, call, project, now) ==
    /\ call.exc = ""
    /\ C16_AllAt(Data(f2, caching_db), project, now)
    /\ f2[changed_files_db].exists
    /\ Unpickle(f2[changed_files_db].bytes).exc = ""
    /\ Data(f2, changed_files_db) = C12_FromEmpty(project, PySet({}))

\* C17: update_last_coala_run_time(P) on a registered project, run while the
\* changed_files_db is corrupted, gives every file of P the time now and
\* writes back a changed_files_db that holds the one entry P with the empty
\* set.
C17_CorruptChangedStore ==
    [][(last'.op = "update_last_coala_run_time"
          /\ last'.project \in DOMAIN RunTimeStore
          /\ C17_Corrupted(fs))
       => C17_AsUnchanged(fs', last', last'.project, clock')]_vars

\* every timestamp of the store data is the sentinel or a time of the clock
\* up to now
C18_Timestamps(data, now) ==
    \A project \in DOMAIN data :
        \A x \in DOMAIN data[project].v :
            /\ data[project].v[x].t = "int"
            /\ \/ data[project].v[x].v = NoTime
               \/ data[project].v[x].v \in 0..now

\* no file of the project has a smaller timestamp in data2 than in data
C18_NotDecreased(data, data2, project) ==
    project \in DOMAIN data =>
        /\ project \in DOMAIN data2
        /\ \A x \in DOMAIN data[project].v :
               /\ x \in DOMAIN data2[project].v
               /\ data2[project].v[x].v >= data[project].v[x].v

C18_AdvanceNeverDecreases ==
    (Returns("update_last_coala_run_time") /\ fs' # fs)
    => C18_NotDecreased(RunTimeStore, Data(fs', caching_db), last'.project)

C19_ChangedKept(data, changed, data2, project) ==
    \A x \in ChangedOf(changed, project) :
        (project \in DOMAIN data /\ x \in DOMAIN data[project].v)
        => /\ project \in DOMAIN data2
           /\ x \in DOMAIN data2[project].v
           /\ data2[project].v[x] = data[project].v[x]

\* the update that stopped between its two dumps left the changed files of
\* the project on disk, and their timestamps as they were
C19_StopIsSafe ==
    last'.op = "update_stopped"
    => /\ ChangedOf(Data(fs', changed_files_db), last'.project)
            = ChangedOf(ChangedFilesStore, last'.project)
       /\ C19_ChangedKept(RunTimeStore, ChangedFilesStore,
                          Data(fs', caching_db), last'.project)

\* the complete update that follows it keeps those timestamps and resets the
\* changed files
C19_RerunIsSafe ==
    (last.op = "update_stopped" /\ Returns("update_last_coala_run_time")
        /\ last'.project = last.project)
    => /\ C19_ChangedKept(RunTimeStore, ChangedFilesStore,
                          Data(fs', caching_db), last.project)
       /\ C2_Reset(last.project, RunTimeStore, Data(fs', changed_files_db))

\* C19: update_last_coala_run_time dumps the caching_db before the
\* changed_files_db: when it stops between the two dumps, the changed files of
\* P are on disk as before and none of them has had its timestamp advanced,
\* and a complete update_last_coala_run_time(P) from that state leaves their
\* timestamps alone again and resets the set.
C19_SafePersistOrder ==
    [][C19_StopIsSafe /\ C19_RerunIsSafe]_vars

\* the update of P stopped after the first dump: b.c was advanced, a.c is
\* still at the sentinel and still recorded as changed
C19_Witness ==
    /\ last.op = "update_stopped"
    /\ last.project = "P"
    /\ clock = 1
    /\ LastRun(fs, "P")
         = PyDict([x \in {"a.c", "b.c"} |->
                      IF x = "a.c" THEN PyInt(NoTime) ELSE PyInt(1)])
    /\ ChangedOf(ChangedFilesStore, "P") = {"a.c"}

====
